---- MODULE Spec2Model ----
(***************************************************************************)
(* The usePipeline React hook (hooks/usePipeline.ts): the asynchronous     *)
(* load of an inference pipeline, the run/reset callbacks and the state    *)
(* cells they write.  One action per handler or promise continuation.      *)
(***************************************************************************)
EXTENDS Integers, FiniteSets, Sequences, TLC

\* ------------------------------------------------------------------ bounds
\* effect runs (factory calls) in one behaviour
MaxLoads == 2
\* handle invocations in one behaviour
MaxCalls == 2

\* classifier calls a page issues in one behaviour
MaxClicks == 2

\* ------------------------------------------------------------------ values
Null == "null"
Undefined == "undefined"
NoHandle == 0

Tasks == {"sentiment-analysis", "text-generation"}
Models == {Undefined, "custom-model"}
Devices == {Undefined, "webgpu"}
Props == [task : Tasks, model : Models, device : Devices]

Inputs == {"good", "bad"}
Results == {"POSITIVE", "NEGATIVE"}
\* what a promise can reject with: an Error instance carrying a message, or
\* any other value
Rejections == {[isError |-> TRUE, message |-> "oom"],
               [isError |-> FALSE, message |-> "oom"]}

NotReadyMsg == "Pipeline not ready"
LoadFailedMsg == "Failed to load model"
InferenceFailedMsg == "Inference failed"

VARIABLES
  mounted,      \* the component owning the hook is mounted
  props,        \* the (task, options.model, options.device) of the last render
  gen,          \* number of effect runs so far; the current effect's closure
  pending,      \* effect closures whose pipeline() promise has not settled
  cancelled,    \* effect closures whose `cancelled` flag is true
  ready,        \* useState(false)
  loading,      \* useState(false)
  error,        \* useState<string | null>(null)
  output,       \* useState<T | null>(null)
  pipelineRef,  \* useRef<Pipeline | null>(null): the effect run that made it
  calls,        \* run() invocations awaiting pipelineRef.current(input): the
                \* handle called, and (history) the effect run current at the
                \* call and the output shown at the call
  nCalls,       \* handle invocations issued so far
  recovering,   \* (history) the current effect run was started after the
                \* load of the one before it had failed
  escaped,      \* rejections no catch converted: they left initPipeline()
                \* or run() as a rejected promise
  last,         \* the step taken last (history, read by the properties only)
  \* the programs around the hook
  text,         \* the text typed by the user: App's useState text, and the
                \* value of the #text textarea of the two pages
  classifier,   \* the pages' `let classifier = null`
  disabled,     \* the disabled attribute of the pages' #analyze button
  textContent,  \* the caption of the #analyze button
  resultDiv,    \* what the #result element shows
  loadPending,  \* the page's pipeline() promise has not settled
  analyses,     \* classifier(text) calls of a page that have not settled
  nAnalyses,    \* classifier calls issued by a page so far
  supportsWebGPU, \* createPipeline: 'gpu' in navigator
  cpArgs,       \* createPipeline: its arguments (task, model)
  cpCalls,      \* createPipeline: the pipeline() calls made, in order
  cpOutcome     \* createPipeline: what the caller's await got, if anything

\* the hook's own state
hookVars == <<mounted, props, gen, pending, cancelled, ready, loading, error,
              output, pipelineRef, calls, nCalls, recovering, escaped>>
\* the state of a page (quick-start demo, vanilla starter)
pageVars == <<classifier, disabled, textContent, resultDiv, loadPending,
              analyses, nAnalyses>>
\* the state of one createPipeline call
cpVars == <<supportsWebGPU, cpArgs, cpCalls, cpOutcome>>
\* what no step of the hook touches
nonHookVars == <<text, pageVars, cpVars>>

vars == <<mounted, props, gen, pending, cancelled, ready, loading, error,
          output, pipelineRef, calls, nCalls, recovering, escaped, last,
          text, pageVars, cpVars>>

\* ------------------------------------------------------------- helpers
\* device: options.device || 'auto'
DeviceArg(d) == IF d = Undefined THEN "auto" ELSE d

\* the arguments of pipeline(task, options.model, { device })
FactoryArgs(p) == <<p.task, p.model, DeviceArg(p.device)>>

\* a catch that reads err.message whatever was thrown
ErrorMessageUnchecked(err, fallback) == err.message

\* err instanceof Error ? err.message : fallback
ErrorMessage(err, fallback) == IF err.isError THEN err.message ELSE fallback

Event(op, n, val, args) == [op |-> op, n |-> n, val |-> val, args |-> args]

\* an effect without a dependency array: it runs again after every render
DepsChangedAlways(p) == TRUE

\* the effect's dependency array [task, options.model, options.device]
DepsChanged(p) == p # props

\* the guard left out: a continuation that never looks at its flag
IsCancelledNever(g) == FALSE

\* `if (!cancelled)` in the continuation of effect run g
IsCancelled(g) == g \in cancelled

\* the guard left out: run never takes the early return
NotReadyNever == FALSE

\* `if (!pipelineRef.current)` in run
NotReady == pipelineRef = NoHandle

\* the load of the current effect run has settled without installing its
\* pipe: on a mounted component, it was rejected
LoadFailed == gen \notin pending /\ pipelineRef # gen

\* ------------------------------------------------------------------ Init
\* A text is a sequence of pieces: blanks, and runs of other characters.
Blank == " "
\* App's useState('I love Transformers.js with React!')
InitialText == <<"I love Transformers.js with React!">>
\* what a user can have typed
Texts == {<<>>, <<Blank>>, <<Blank, Blank>>, <<"good">>,
          <<Blank, "bad", Blank>>, InitialText}

\* String.prototype.trim: the text without its leading and trailing blanks
RECURSIVE TrimStart(_)
TrimStart(t) ==
  IF t # <<>> /\ Head(t) = Blank THEN TrimStart(Tail(t)) ELSE t
RECURSIVE TrimEnd(_)
TrimEnd(t) ==
  IF t # <<>> /\ t[Len(t)] = Blank
    THEN TrimEnd(SubSeq(t, 1, Len(t) - 1))
    ELSE t
Trim(t) == TrimEnd(TrimStart(t))

\* an empty #result element
EmptyResult == [class |-> "empty", text |-> <<>>]

\* no page is open
NoPage ==
  /\ classifier = Null
  /\ disabled = FALSE
  /\ textContent = Null
  /\ resultDiv = EmptyResult
  /\ loadPending = FALSE
  /\ analyses = {}
  /\ nAnalyses = 0

\* no component uses the hook
NoHook ==
  /\ mounted = FALSE
  /\ props = [task |-> "sentiment-analysis", model |-> Undefined,
              device |-> Undefined]
  /\ gen = 0
  /\ pending = {}
  /\ cancelled = {}
  /\ ready = FALSE
  /\ loading = FALSE
  /\ error = Null
  /\ output = Null
  /\ pipelineRef = NoHandle
  /\ calls = {}
  /\ nCalls = 0
  /\ recovering = FALSE
  /\ escaped = {}

\* createPipeline has neither returned nor thrown
NoOutcome == [kind |-> "pending"]

\* createPipeline is not called
NoCreatePipeline ==
  /\ supportsWebGPU = FALSE
  /\ cpArgs = Null
  /\ cpCalls = <<>>
  /\ cpOutcome = NoOutcome

\* a hook whose ready cell starts as useState(true)
InitReady ==
  /\ mounted = TRUE
  /\ props \in Props
  /\ gen = 1
  /\ pending = {1}
  /\ cancelled = {}
  /\ ready = TRUE
  /\ loading = FALSE
  /\ error = Null
  /\ output = Null
  /\ pipelineRef = NoHandle
  /\ calls = {}
  /\ nCalls = 0
  /\ recovering = FALSE
  /\ escaped = {}
  /\ last = Event("mount", 1, Null, FactoryArgs(props))
  /\ text = InitialText
  /\ NoPage
  /\ NoCreatePipeline

\* the state after the first render and its effect: the useState initial
\* values, and initPipeline() called once (setError(null), pipeline() pending)
Init ==
  /\ mounted = TRUE
  /\ props \in Props
  /\ gen = 1
  /\ pending = {1}
  /\ cancelled = {}
  /\ ready = FALSE
  /\ loading = FALSE
  /\ error = Null
  /\ output = Null
  /\ pipelineRef = NoHandle
  /\ calls = {}
  /\ nCalls = 0
  /\ recovering = FALSE
  /\ escaped = {}
  /\ last = Event("mount", 1, Null, FactoryArgs(props))
  /\ text = InitialText
  /\ NoPage
  /\ NoCreatePipeline

\* --------------------------------------------------------------- actions
\* an effect whose initPipeline does not start with setError(null)
ConfigureKeepsError(p) ==
  /\ mounted
  /\ gen < MaxLoads
  /\ DepsChanged(p)
  /\ props' = p
  /\ cancelled' = cancelled \cup {gen}
  /\ gen' = gen + 1
  /\ pending' = pending \cup {gen + 1}
  /\ recovering' = LoadFailed
  /\ last' = Event("configure", gen + 1, Null, FactoryArgs(p))
  /\ UNCHANGED <<escaped, mounted, ready, loading, error, output,
                 pipelineRef, calls, nCalls>>
  /\ UNCHANGED nonHookVars

\* an effect that starts every session from a blank result
ConfigureClearsOutput(p) ==
  /\ mounted
  /\ gen < MaxLoads
  /\ DepsChanged(p)
  /\ props' = p
  /\ cancelled' = cancelled \cup {gen}
  /\ gen' = gen + 1
  /\ error' = Null
  /\ output' = Null
  /\ pending' = pending \cup {gen + 1}
  /\ recovering' = LoadFailed
  /\ last' = Event("configure", gen + 1, Null, FactoryArgs(p))
  /\ UNCHANGED <<escaped, mounted, ready, loading, pipelineRef, calls,
                 nCalls>>
  /\ UNCHANGED nonHookVars

\* A render with a changed dependency: the previous effect's cleanup
\* (cancelled = true), then the new effect: initPipeline() up to its await.
Configure(p) ==
  /\ mounted
  /\ gen < MaxLoads
  /\ DepsChanged(p)
  /\ props' = p
  /\ cancelled' = cancelled \cup {gen}
  /\ gen' = gen + 1
  /\ error' = Null
  /\ pending' = pending \cup {gen + 1}
  /\ recovering' = LoadFailed
  /\ last' = Event("configure", gen + 1, Null, FactoryArgs(p))
  /\ UNCHANGED <<escaped, mounted, ready, loading, output, pipelineRef,
                 calls, nCalls>>
  /\ UNCHANGED nonHookVars

\* a continuation that stores the pipe and forgets setReady(true)
LoadResolveRefOnly(g) ==
  /\ g \in pending
  /\ pending' = pending \ {g}
  /\ IF ~IsCancelled(g)
       THEN /\ pipelineRef' = g
            /\ last' = Event("loadResolve", g, Null, <<>>)
       ELSE /\ UNCHANGED pipelineRef
            /\ last' = Event("loadDiscard", g, "resolved", <<>>)
  /\ UNCHANGED <<recovering, escaped, mounted, props, gen, cancelled, ready,
                 loading, error, output, calls, nCalls>>
  /\ UNCHANGED nonHookVars

\* `await pipeline(...)` of effect run g resolves with a pipe
LoadResolve(g) ==
  /\ g \in pending
  /\ pending' = pending \ {g}
  /\ IF ~IsCancelled(g)
       THEN /\ pipelineRef' = g
            /\ ready' = TRUE
            /\ last' = Event("loadResolve", g, Null, <<>>)
       ELSE /\ UNCHANGED <<pipelineRef, ready>>
            /\ last' = Event("loadDiscard", g, "resolved", <<>>)
  /\ UNCHANGED <<recovering, escaped,
                 mounted, props, gen, cancelled, loading, error, output,
                 calls, nCalls>>
  /\ UNCHANGED nonHookVars

\* a catch that calls pipeline() again: the effect run stays pending
LoadRejectRetries(g, err) ==
  /\ g \in pending
  /\ IF ~IsCancelled(g)
       THEN /\ error' = ErrorMessage(err, LoadFailedMsg)
            /\ last' = Event("loadReject", g, error', <<>>)
       ELSE /\ UNCHANGED error
            /\ last' = Event("loadDiscard", g, "rejected", <<>>)
  /\ UNCHANGED <<recovering, escaped, mounted, props, gen, pending,
                 cancelled, ready, loading, output, pipelineRef, calls,
                 nCalls>>
  /\ UNCHANGED nonHookVars

\* `await pipeline(...)` of effect run g rejects with err
LoadReject(g, err) ==
  /\ g \in pending
  /\ pending' = pending \ {g}
  /\ IF ~IsCancelled(g)
       THEN /\ error' = ErrorMessage(err, LoadFailedMsg)
            /\ last' = Event("loadReject", g, error', <<err>>)
       ELSE /\ UNCHANGED error
            /\ last' = Event("loadDiscard", g, "rejected", <<>>)
  /\ UNCHANGED <<recovering, escaped,
                 mounted, props, gen, cancelled, ready, loading, output,
                 pipelineRef, calls, nCalls>>
  /\ UNCHANGED nonHookVars

\* run(input) while pipelineRef.current is null
RunNotReady(input) ==
  /\ mounted
  /\ NotReady
  /\ error' = NotReadyMsg
  /\ last' = Event("runNotReady", 0, input, <<>>)
  /\ UNCHANGED <<recovering, escaped,
                 mounted, props, gen, pending, cancelled, ready, loading,
                 output, pipelineRef, calls, nCalls>>
  /\ UNCHANGED nonHookVars

\* run(input) up to `await pipelineRef.current(input)`
RunStart(input) ==
  /\ mounted
  /\ ~NotReady
  /\ nCalls < MaxCalls
  /\ loading' = TRUE
  /\ error' = Null
  /\ nCalls' = nCalls + 1
  /\ calls' = calls \cup {[id |-> nCalls + 1, handle |-> pipelineRef,
                           session |-> gen, before |-> output]}
  /\ last' = Event("run", nCalls + 1, input, <<>>)
  /\ UNCHANGED <<recovering, escaped,
                 mounted, props, gen, pending, cancelled, ready, output,
                 pipelineRef>>
  /\ UNCHANGED nonHookVars

Run(input) == RunNotReady(input) \/ RunStart(input)

\* a success path that keeps only the result of the call issued last
InvokeResolveLatestIssued(c, r) ==
  /\ c \in calls
  /\ calls' = calls \ {c}
  /\ output' = IF c.id = nCalls THEN r ELSE output
  /\ loading' = FALSE
  /\ last' = Event("invokeResolve", c.id, r, <<>>)
  /\ UNCHANGED <<recovering, escaped,
                 mounted, props, gen, pending, cancelled, ready,
                 error, pipelineRef, nCalls>>
  /\ UNCHANGED nonHookVars

\* a success path that also clears the error
InvokeResolveClearsError(c, r) ==
  /\ c \in calls
  /\ calls' = calls \ {c}
  /\ output' = r
  /\ error' = Null
  /\ loading' = FALSE
  /\ last' = Event("invokeResolve", c.id, r, <<>>)
  /\ UNCHANGED <<recovering, escaped,
                 mounted, props, gen, pending, cancelled, ready,
                 pipelineRef, nCalls>>
  /\ UNCHANGED nonHookVars

\* the handle's promise of call c resolves with result r; then `finally`
InvokeResolve(c, r) ==
  /\ c \in calls
  /\ calls' = calls \ {c}
  /\ output' = r
  /\ loading' = FALSE
  /\ last' = Event("invokeResolve", c.id, r, <<>>)
  /\ UNCHANGED <<recovering, escaped,
                 mounted, props, gen, pending, cancelled, ready, error,
                 pipelineRef, nCalls>>
  /\ UNCHANGED nonHookVars

\* a catch without the `finally`: loading is left as it was
InvokeRejectNoFinally(c, err) ==
  /\ c \in calls
  /\ calls' = calls \ {c}
  /\ error' = ErrorMessage(err, InferenceFailedMsg)
  /\ last' = Event("invokeReject", c.id, error', <<>>)
  /\ UNCHANGED <<recovering, escaped,
                 mounted, props, gen, pending, cancelled, ready, loading,
                 output, pipelineRef, nCalls>>
  /\ UNCHANGED nonHookVars

\* a catch that also drops the previous result
InvokeRejectClearsOutput(c, err) ==
  /\ c \in calls
  /\ calls' = calls \ {c}
  /\ error' = ErrorMessage(err, InferenceFailedMsg)
  /\ output' = Null
  /\ loading' = FALSE
  /\ last' = Event("invokeReject", c.id, error', <<>>)
  /\ UNCHANGED <<recovering, escaped,
                 mounted, props, gen, pending, cancelled, ready,
                 pipelineRef, nCalls>>
  /\ UNCHANGED nonHookVars

\* a try/finally without the catch: the rejection leaves run()
InvokeRejectUncaught(c, err) ==
  /\ c \in calls
  /\ calls' = calls \ {c}
  /\ escaped' = escaped \cup {"run"}
  /\ loading' = FALSE
  /\ last' = Event("invokeReject", c.id, ErrorMessage(err, InferenceFailedMsg),
                   <<>>)
  /\ UNCHANGED <<recovering, mounted, props, gen, pending, cancelled,
                 ready, error, output, pipelineRef, nCalls>>
  /\ UNCHANGED nonHookVars

\* the handle's promise of call c rejects with err; then `finally`
InvokeReject(c, err) ==
  /\ c \in calls
  /\ calls' = calls \ {c}
  /\ error' = ErrorMessage(err, InferenceFailedMsg)
  /\ loading' = FALSE
  /\ last' = Event("invokeReject", c.id, error', <<err>>)
  /\ UNCHANGED <<recovering, escaped,
                 mounted, props, gen, pending, cancelled, ready, output,
                 pipelineRef, nCalls>>
  /\ UNCHANGED nonHookVars

\* a reset that also drops the pipeline
ResetDropsHandle ==
  /\ mounted
  /\ output' = Null
  /\ error' = Null
  /\ ready' = FALSE
  /\ pipelineRef' = NoHandle
  /\ last' = Event("reset", 0, Null, <<>>)
  /\ UNCHANGED <<recovering, escaped,
                 mounted, props, gen, pending, cancelled, loading,
                 calls, nCalls>>
  /\ UNCHANGED nonHookVars

\* a reset that abandons the invocations in flight
ResetCancelsRuns ==
  /\ mounted
  /\ output' = Null
  /\ error' = Null
  /\ calls' = {}
  /\ loading' = FALSE
  /\ last' = Event("reset", 0, Null, <<>>)
  /\ UNCHANGED <<recovering, escaped,
                 mounted, props, gen, pending, cancelled, ready,
                 pipelineRef, nCalls>>
  /\ UNCHANGED nonHookVars

\* a reset that clears the result only
ResetOutputOnly ==
  /\ mounted
  /\ output' = Null
  /\ last' = Event("reset", 0, Null, <<>>)
  /\ UNCHANGED <<recovering, escaped,
                 mounted, props, gen, pending, cancelled, ready, loading,
                 error, pipelineRef, calls, nCalls>>
  /\ UNCHANGED nonHookVars

\* reset()
Reset ==
  /\ mounted
  /\ output' = Null
  /\ error' = Null
  /\ last' = Event("reset", 0, Null, <<>>)
  /\ UNCHANGED <<recovering, escaped,
                 mounted, props, gen, pending, cancelled, ready, loading,
                 pipelineRef, calls, nCalls>>
  /\ UNCHANGED nonHookVars

\* the component unmounts: the current effect's cleanup runs
Unmount ==
  /\ mounted
  /\ mounted' = FALSE
  /\ cancelled' = cancelled \cup {gen}
  /\ last' = Event("unmount", gen, Null, <<>>)
  /\ UNCHANGED <<recovering, escaped,
                 props, gen, pending, ready, loading, error, output,
                 pipelineRef, calls, nCalls>>
  /\ UNCHANGED nonHookVars

\* a `loading` flag derived from the load instead of from run
ReturnedLoadingFromLoad ==
  [ready |-> ready, loading |-> gen \in pending, error |-> error,
   output |-> output]

\* what the hook returns on a render (run and reset are the actions above)
Returned ==
  [ready |-> ready, loading |-> loading, error |-> error, output |-> output]

Next ==
  \/ \E p \in Props : Configure(p)
  \/ \E g \in pending : LoadResolve(g)
  \/ \E g \in pending, err \in Rejections : LoadReject(g, err)
  \/ \E i \in Inputs : Run(i)
  \/ \E c \in calls, r \in Results : InvokeResolve(c, r)
  \/ \E c \in calls, err \in Rejections : InvokeReject(c, err)
  \/ Reset
  \/ Unmount

Spec == Init /\ [][Next]_vars

\* the session status of the current effect run, read off the hook's state
Status ==
  IF gen \in pending THEN "loading"
  ELSE IF pipelineRef = gen THEN "ready"
  ELSE "failed"

\* every load eventually resolves or rejects
LoadSettle ==
  \E g \in pending :
    \/ LoadResolve(g)
    \/ \E err \in Rejections : LoadReject(g, err)

FairLoadSpec == Spec /\ WF_vars(LoadSettle)

\* every handle call eventually resolves or rejects
Settle ==
  \E c \in calls :
    \/ \E r \in Results : InvokeResolve(c, r)
    \/ \E err \in Rejections : InvokeReject(c, err)

FairSpec == Spec /\ WF_vars(Settle)

\* ------------------------------------------------------------ properties
\* steps, recognised from the states before and after
LoadSettles(g) == g \in pending /\ g \notin pending'
RunStep == last'.op \in {"run", "runNotReady"} /\ last' # last
ResetStep == last'.op = "reset"
Resolves(c) == c \in calls /\ c \notin calls' /\ last'.op = "invokeResolve"
Rejects(c) == c \in calls /\ c \notin calls' /\ last'.op = "invokeReject"

\* C1: the settling (success or failure) of the load of an effect run that
\* is no longer the current one changes none of ready, the held handle and
\* lastError, and a handle is installed only by the current effect run's load.
C1_StaleLoadDiscarded ==
  [][/\ \A g \in pending :
          (LoadSettles(g) /\ g # gen) => UNCHANGED <<ready, pipelineRef, error>>
     /\ pipelineRef' # pipelineRef => (pipelineRef' = gen /\ mounted)]_vars

\* task A's load resolved successfully after the reconfigure to task B
C1_Witness ==
  /\ last.op = "loadDiscard"
  /\ last.val = "resolved"
  /\ last.n < gen
  /\ mounted
  /\ pipelineRef # last.n

\* C2: until the load of the current (task, model, device) has succeeded,
\* ready is false and run takes the NotReady path.
C2_LoadingNotReady ==
  (mounted /\ pipelineRef # gen) => (~ready /\ pipelineRef = NoHandle)

\* C3: after the load of the current effect run failed, ready is false,
\* lastError is the failure message and no handle is held.
C3_FailedLoadState ==
  (last.op = "loadReject")
    => (~ready /\ error = last.val /\ pipelineRef = NoHandle)

\* C4: busy is true exactly when some handle invocation has not settled.
C4_BusyIffOutstanding == loading <=> (calls # {})

\* C5: every exit of run (handle resolved, handle rejected, NotReady return)
\* leaves busy false, and whenever busy is true it eventually becomes false.
C5_BusyAlwaysReset ==
  /\ [][(\/ \E c \in calls : c \notin calls'
         \/ last'.op = "runNotReady") => ~loading']_vars
  /\ (loading ~> ~loading)

\* run rejected by the handle, busy back to false
C5_Witness ==
  /\ last.op = "invokeReject"
  /\ ~loading
  /\ calls = {}

\* C6: run while no handle is held issues no handle call and no factory
\* call, sets lastError to 'Pipeline not ready' and leaves busy, lastResult,
\* ready and the handle as they were.
C6_NotReadyRun ==
  [][(RunStep /\ pipelineRef = NoHandle)
       => /\ error' = NotReadyMsg
          /\ UNCHANGED <<loading, output, ready, pipelineRef, calls, nCalls,
                         pending, gen>>]_vars

\* run was called with the load still outstanding
C6_Witness ==
  /\ last.op = "runNotReady"
  /\ pipelineRef = NoHandle
  /\ gen \in pending
  /\ error = NotReadyMsg

\* C7: reset sets lastResult and lastError to null and leaves ready and the
\* handle unchanged; a run that follows it calls the handle held before it.
C7_ResetFrame ==
  [][/\ ResetStep
          => /\ output' = Null
             /\ error' = Null
             /\ UNCHANGED <<ready, pipelineRef, loading, calls, pending>>
     /\ (last.op = "reset" /\ last'.op = "run" /\ ready)
          => \E c \in calls' \ calls : c.handle = pipelineRef]_vars

\* a ready session showing a result was reset
C7_Witness ==
  /\ last.op = "reset"
  /\ ready
  /\ pipelineRef # NoHandle
  /\ nCalls > 0

\* C8 as stated: after run starts busy is true and lastError null, and when
\* the handle has resolved with r and no other invocation is outstanding,
\* lastResult = r, lastError = null, busy = false and ready = true.  Stated
\* for a session that was never reconfigured or unmounted, where no load
\* can interfere with the invocation.
C8_Original ==
  cancelled = {}
    => /\ (last.op = "run") => (loading /\ error = Null)
       /\ (last.op = "invokeResolve" /\ calls = {})
            => (output = last.val /\ error = Null /\ ~loading /\ ready)

\* C8 amended: run on a ready session sets busy and clears lastError before
\* the handle is called; the handle resolving with r sets lastResult = r and
\* busy = false, leaves ready true and leaves lastError as it was.
C8_ResolveEffect ==
  [][/\ (RunStep /\ pipelineRef # NoHandle)
          => /\ loading' /\ error' = Null
             /\ \E c \in calls' \ calls : c.handle = pipelineRef
     /\ \A c \in calls :
          Resolves(c)
            => /\ output' = last'.val
               /\ ~loading'
               /\ ready /\ ready'
               /\ error' = error]_vars

\* the last outstanding invocation resolved while an error was showing
C8_Witness ==
  /\ last.op = "invokeResolve"
  /\ calls = {}
  /\ output = last.val
  /\ error # Null

\* C9 as stated: when the handle rejects, lastError is the failure message,
\* lastResult is what it was before run was called, busy is false and the
\* session is still ready with the same handle.
C9_Original ==
  [][\A c \in calls :
       Rejects(c)
         => /\ error' = last'.val
            /\ output' = c.before
            /\ ~loading'
            /\ ready' /\ pipelineRef' = pipelineRef]_vars

\* C9 amended: when the handle rejects, lastError is the failure message,
\* lastResult is left as it was just before the rejection, busy is false and
\* the session is still ready with the same handle.
C9_RejectEffect ==
  [][\A c \in calls :
       Rejects(c)
         => /\ error' = last'.val
            /\ last'.val \in {"oom", InferenceFailedMsg}
            /\ output' = output
            /\ ~loading'
            /\ ready' /\ pipelineRef' = pipelineRef
            /\ pipelineRef' # NoHandle]_vars

\* a run failed on a session that was showing a result
C9_Witness ==
  /\ last.op = "invokeReject"
  /\ error = last.val
  /\ output # Null
  /\ ready
  /\ ~loading

\* C10: the settling of an invocation issued under an effect run that has
\* since been superseded changes none of lastResult, lastError and busy.
C10_StaleInvokeDiscarded ==
  [][\A c \in calls :
       (c \notin calls' /\ c.session < gen)
         => UNCHANGED <<output, error, loading>>]_vars

C12_NoEscapedRejection ==
  /\ escaped = {}
  /\ (last.op \in {"loadReject", "invokeReject"})
       => (error = last.val /\ error # Null)
  /\ (last.op = "runNotReady") => (error = NotReadyMsg)

\* the handle rejected and the failure shows in lastError only
C12_Witness ==
  /\ last.op = "invokeReject"
  /\ error = last.val
  /\ escaped = {}

C14_OverlappingRuns ==
  [][/\ (RunStep /\ pipelineRef # NoHandle /\ calls # {})
          => /\ \E c \in calls' \ calls :
                  /\ calls' = calls \cup {c}
                  /\ c.handle = pipelineRef
                  /\ c.id = nCalls'
             /\ error' = Null
             /\ pipelineRef' = pipelineRef
     /\ \A c \in calls :
          Resolves(c) => (output' = last'.val /\ calls' = calls \ {c})]_vars

\* two runs overlapped and the one issued first resolved last: its result
\* is the one shown
C14_Witness ==
  /\ last.op = "invokeResolve"
  /\ last.n = 1
  /\ nCalls = 2
  /\ calls = {}
  /\ output = last.val

\* C15 as stated: lastError is null right after a Configure and right after
\* a run on a ready session starts, and an error shown once an attempt has
\* settled comes from that attempt or a later one.  Stated for invocations
\* of a session that was never reconfigured or unmounted.
C15_Original ==
  /\ (last.op \in {"mount", "configure", "run"}) => (error = Null)
  /\ (cancelled = {} /\ last.op = "invokeReject" /\ error = last.val)
       => \A id \in 1..nCalls :
            (\A c \in calls : c.id # id) => (id <= last.n)

\* C15 amended: each Configure sets lastError to null before its load is
\* issued and each run on a ready session sets it to null before the handle
\* is called; a non-null lastError is only ever written by a failing load,
\* a failing invocation or a run that was not ready, whenever it settles.
C15_ClearedOnAttempt ==
  [][/\ (last'.op = "configure" /\ last' # last)
          => (error' = Null /\ gen' \in pending' \ pending)
     /\ (last'.op = "run" /\ last' # last)
          => (error' = Null /\ calls' # calls /\ calls \subseteq calls')
     /\ (error' # Null /\ error' # error)
          => last'.op \in {"loadReject", "invokeReject", "runNotReady"}]_vars

\* the run issued first failed after the run issued second had settled: the
\* error shown comes from the earlier attempt
C15_Witness ==
  /\ last.op = "invokeReject"
  /\ last.n = 1
  /\ nCalls = 2
  /\ calls = {}
  /\ error = last.val

\* C16: a Configure issues exactly one factory call, no other step issues
\* one (a failed load is not retried), and once the load of the current
\* effect run has failed ready is false until the next Configure.
C16_OneLoadNoRetry ==
  [][/\ (last'.op = "configure" /\ last' # last)
          => (gen' = gen + 1 /\ pending' = pending \cup {gen'})
     /\ ~(last'.op = "configure" /\ last' # last)
          => (gen' = gen /\ pending' \subseteq pending)
     /\ (mounted' /\ gen' \notin pending' /\ pipelineRef' # gen')
          => ~ready']_vars

\* C17 as stated: when the load of a Configure issued on a failed session
\* succeeds, ready is true, the new handle is installed and lastError is
\* null.
C17_Original ==
  (recovering /\ last.op = "loadResolve")
    => (ready /\ pipelineRef = gen /\ error = Null)

\* C17 amended: a Configure issued on a failed session sets lastError to
\* null and issues a load; when that load succeeds ready is true and the new
\* handle is installed, and lastError is left as it was.
C17_Recovery ==
  [][/\ (LoadFailed /\ last'.op = "configure" /\ last' # last)
          => (recovering' /\ error' = Null /\ gen' \in pending')
     /\ (recovering' /\ last'.op = "loadResolve" /\ last' # last)
          => (ready' /\ pipelineRef' = gen' /\ error' = error)]_vars

\* a session whose load had failed was reconfigured and is now ready, with
\* no error showing
C17_Witness ==
  /\ recovering
  /\ last.op = "loadResolve"
  /\ ready
  /\ pipelineRef = gen
  /\ error = Null

\* C18: every handle invocation runs against the handle made by the load of
\* the effect run that is current when run is called.
C18_HandleOfCurrentSession == \A c \in calls : c.handle = c.session

\* C19: the status is always one of loading, ready, failed (uninitialized
\* is the state before the first render); with every load settling and the
\* reconfigurations coming to an end, the session of a mounted component
\* eventually is, and stays, ready or failed, and ready means the ready flag
\* is set with the current effect run's handle installed.
C19_ReachesRest ==
  /\ [](Status \in {"loading", "ready", "failed"})
  /\ [](Status = "ready" => (ready /\ pipelineRef # NoHandle))
  /\ <>[](mounted => Status \in {"ready", "failed"})

\* a reconfigured session whose load has failed: it rests in failed
C19_Witness ==
  /\ mounted
  /\ gen > 1
  /\ Status = "failed"
  /\ last.op = "loadReject"

Rerender(p) ==
  /\ mounted
  /\ ~DepsChanged(p)
  /\ last' = Event("render", gen, Null, FactoryArgs(p))
  /\ UNCHANGED <<recovering, escaped,
                 mounted, props, gen, pending, cancelled, ready, loading,
                 error, output, pipelineRef, calls, nCalls>>
  /\ UNCHANGED nonHookVars

RenderNext ==
  \/ Next
  \/ \E p \in Props : Rerender(p)

RenderSpec == Init /\ [][RenderNext]_vars

\* C21: a render that changes task, model or device cancels the effect run
\* current before it and issues exactly one new load; no other step issues a
\* load; a render with the same three values issues no load and cancels
\* nothing.
C21_ReloadIffDepsChange ==
  [][/\ (props' # props)
          => /\ gen' = gen + 1
             /\ cancelled' = cancelled \cup {gen}
             /\ pending' = pending \cup {gen'}
             /\ last'.args = FactoryArgs(props')
     /\ (gen' # gen \/ ~(pending' \subseteq pending)) => (props' # props)
     /\ (last'.op = "render")
          => UNCHANGED <<props, gen, pending, cancelled, pipelineRef, ready>>
     /\ (mounted' /\ cancelled' # cancelled) => (props' # props)]_vars

\* the component rendered again with the same three values while its load
\* was outstanding: the load is still outstanding and not cancelled
C21_Witness ==
  /\ last.op = "render"
  /\ gen = 1
  /\ gen \in pending
  /\ cancelled = {}

\* C25: a failing load of the current effect run and a failing invocation
\* store the rejection's own message when the rejected value is an Error
\* instance, and otherwise 'Failed to load model' and 'Inference failed'
\* respectively; what they store is never null.
C25_FailureMessage ==
  /\ (last.op = "loadReject")
       => /\ error = (IF last.args[1].isError THEN last.args[1].message
                      ELSE LoadFailedMsg)
          /\ error = last.val
  /\ (last.op = "invokeReject")
       => /\ error = (IF last.args[1].isError THEN last.args[1].message
                      ELSE InferenceFailedMsg)
          /\ error = last.val
  /\ (last.op \in {"loadReject", "invokeReject"})
       => (error # Null /\ error \in {"oom", LoadFailedMsg, InferenceFailedMsg})

\* an invocation was rejected with a value that is no Error instance but
\* has a message of its own: the fallback text is stored
C25_Witness ==
  /\ last.op = "invokeReject"
  /\ ~last.args[1].isError
  /\ last.args[1].message # InferenceFailedMsg
  /\ error = InferenceFailedMsg

\* C26: a Configure and the settling of a load, successful or failed,
\* current or superseded, leave lastResult and busy unchanged; lastResult
\* changes only by a reset or an invocation resolving, so a result obtained
\* under an earlier (task, model, device) is still shown after a Configure.
C26_LoadLeavesInvocationState ==
  [][/\ (\/ gen' # gen
         \/ \E g \in pending : LoadSettles(g))
          => UNCHANGED <<output, loading, calls, nCalls>>
     /\ (output' # output) => (last'.op \in {"reset", "invokeResolve"})
     /\ (loading' # loading)
          => (last'.op \in {"run", "invokeResolve", "invokeReject"})]_vars

\* the load of the second configuration succeeded while the result of an
\* invocation made and settled under the first is still shown
C26_Witness ==
  /\ last.op = "loadResolve"
  /\ gen = 2
  /\ pipelineRef = 2
  /\ output # Null
  /\ calls = {}
  /\ nCalls = 1

\* C27: a reset made while an invocation is outstanding leaves the
\* invocation outstanding and busy as it was (true stays true); when the
\* invocation settles afterwards it writes lastResult (resolved) or
\* lastError (rejected) with a non-null value, whatever reset had cleared.
C27_ResetDuringInvoke ==
  [][/\ (ResetStep /\ calls # {})
          => /\ UNCHANGED <<calls, loading, nCalls>>
             /\ loading => loading'
             /\ output' = Null /\ error' = Null
     /\ \A c \in calls :
          /\ Resolves(c) => (output' = last'.val /\ output' # Null)
          /\ Rejects(c) => (error' = last'.val /\ error' # Null)]_vars

\* reset was called while the only invocation issued was outstanding: the
\* display is cleared, busy is still true and the invocation still pending
C27_Witness ==
  /\ last.op = "reset"
  /\ nCalls = 1
  /\ calls # {}
  /\ loading
  /\ output = Null
  /\ error = Null

\* C28: on a session that holds no handle (no load ever succeeded) and
\* whose current load has failed, a run replaces the stored
\* load-failure message by 'Pipeline not ready' and a reset replaces it by
\* null, ready staying false in both cases; so a failed session can show
\* ready = false and lastError = null, as a loading one does.
C28_LoadErrorNotPreserved ==
  [][(pipelineRef = NoHandle /\ LoadFailed /\ mounted)
       => /\ ~ready
          /\ RunStep => (error' = NotReadyMsg /\ ~ready' /\ UNCHANGED calls)
          /\ ResetStep => (error' = Null /\ ~ready')]_vars

\* the only load failed and reset was called: ready is false and lastError
\* null, as in the initial, loading, state
C28_Witness ==
  /\ gen = 1
  /\ LoadFailed
  /\ Status = "failed"
  /\ last.op = "reset"
  /\ ~ready
  /\ error = Null
  /\ nCalls = 0

\* ------------------------------------------------------------- App.tsx
\* usePipeline('sentiment-analysis'): no options, the same on every render
AppProps ==
  [task |-> "sentiment-analysis", model |-> Undefined, device |-> Undefined]

AppInit == Init /\ props = AppProps

\* a button that stays enabled while an inference runs
ButtonDisabledNotBusy == ~ready \/ Trim(text) = <<>>

\* disabled={!ready || loading || !text.trim()}
ButtonDisabled == ~ready \/ loading \/ Trim(text) = <<>>

\* onChange of the textarea, which is disabled={loading}
SetText(t) ==
  /\ mounted
  /\ ~loading
  /\ t # text
  /\ text' = t
  /\ UNCHANGED <<hookVars, last, pageVars, cpVars>>

\* handleAnalyze: if (!text.trim()) return; await run(text)
HandleAnalyze ==
  IF Trim(text) = <<>> THEN UNCHANGED vars ELSE Run(text)

\* a click on the button; a disabled button dispatches no click
AppClick ==
  /\ mounted
  /\ ~ButtonDisabled
  /\ HandleAnalyze

AppNext ==
  \/ \E t \in Texts : SetText(t)
  \/ AppClick
  \/ \E g \in pending : LoadResolve(g)
  \/ \E g \in pending, err \in Rejections : LoadReject(g, err)
  \/ \E c \in calls, r \in Results : InvokeResolve(c, r)
  \/ \E c \in calls, err \in Rejections : InvokeReject(c, err)
  \/ Unmount

AppSpec == AppInit /\ [][AppNext]_vars

\* C22: in App every call of run is made with ready true, busy false, no
\* invocation outstanding and a text that is not empty once trimmed; so at
\* most one invocation is outstanding at any time and run never takes the
\* NotReady path.
C22_AppSerializesRuns ==
  /\ [][RunStep
          => /\ ready /\ ~loading
             /\ Trim(text) # <<>>
             /\ calls = {}
             /\ pipelineRef # NoHandle
             /\ last'.op = "run" /\ last'.val = text]_vars
  /\ [](Cardinality(calls) <= 1)
  /\ [](last.op # "runNotReady")
  /\ [](loading <=> calls # {})

\* the button was used twice, the second time after the first analysis had
\* settled and the text had been edited
C22_Witness ==
  /\ nCalls = 2
  /\ Cardinality(calls) = 1
  /\ last.op = "run"
  /\ text # InitialText
  /\ loading

\* ------------------------------------------ the two pages: common parts
\* What a page's pipeline() or classifier() promise can reject with: the
\* values the hook considers, and a value with no message property.
PageRejections == Rejections \cup {[isError |-> FALSE, message |-> Undefined]}

\* the pipe a page's `await pipeline('sentiment-analysis')` resolves with
PagePipe == "sentiment-analysis pipe"

\* the elements a page writes into #result
ResultCard(label) == [class |-> "result", text |-> <<label>>]
ErrorBox(prefix, message) == [class |-> "error", text |-> <<prefix, message>>]

\* the user edits the textarea, which no page ever disables
Type(t) ==
  /\ t # text
  /\ text' = t
  /\ last' = Event("input", 0, t, <<>>)
  /\ UNCHANGED <<hookVars, pageVars, cpVars>>

\* ---------------------------- quick-start.md: the complete application
\* <textarea id="text">I love Transformers.js!</textarea>
QuickInitialText == <<"I love Transformers.js!">>

\* The page once the DOMContentLoaded listener has run up to its await.
QuickInit ==
  /\ classifier = Null
  /\ textContent = "Loading AI model..."
  /\ disabled = TRUE
  /\ resultDiv = EmptyResult
  /\ loadPending = TRUE
  /\ analyses = {}
  /\ nAnalyses = 0
  /\ text = QuickInitialText
  /\ last = Event("DOMContentLoaded", 0, Null, <<>>)
  /\ NoHook
  /\ NoCreatePipeline

\* classifier = await pipeline('sentiment-analysis') resolves
QuickLoadResolve ==
  /\ loadPending
  /\ loadPending' = FALSE
  /\ classifier' = PagePipe
  /\ textContent' = "Analyze Sentiment"
  /\ disabled' = FALSE
  /\ last' = Event("loadResolve", 0, Null, <<>>)
  /\ UNCHANGED <<resultDiv, analyses, nAnalyses, text, hookVars, cpVars>>

\* it rejects: the catch writes the failure into #result
QuickLoadReject(err) ==
  /\ loadPending
  /\ loadPending' = FALSE
  /\ resultDiv' = ErrorBox("Failed to load model: ", err.message)
  /\ last' = Event("loadReject", 0, err.message, <<err>>)
  /\ UNCHANGED <<classifier, textContent, disabled, analyses, nAnalyses,
                 text, hookVars, cpVars>>

\* window.analyzeSentiment up to its await, or to its early return; calling
\* a null classifier throws inside the try, so catch and finally run at once
AnalyzeSentiment ==
  LET t == Trim(text) IN
  IF t = <<>>
    THEN /\ last' = Event("alert", 0, "Please enter some text!", <<>>)
         /\ UNCHANGED <<pageVars, text, hookVars, cpVars>>
    ELSE IF classifier = Null
      THEN /\ resultDiv' = ErrorBox("Error: ", "classifier is not a function")
           /\ disabled' = FALSE
           /\ textContent' = "Analyze Sentiment"
           /\ last' = Event("nullCall", 0, t, <<>>)
           /\ UNCHANGED <<classifier, loadPending, analyses, nAnalyses,
                          text, hookVars, cpVars>>
      ELSE /\ disabled' = TRUE
           /\ textContent' = "Analyzing..."
           /\ nAnalyses' = nAnalyses + 1
           /\ analyses' = analyses \cup {[id |-> nAnalyses + 1, input |-> t]}
           /\ last' = Event("analyze", nAnalyses + 1, t, <<>>)
           /\ UNCHANGED <<classifier, resultDiv, loadPending, text,
                          hookVars, cpVars>>

\* onclick="analyzeSentiment()"; a disabled button dispatches no click
QuickClick ==
  /\ ~disabled
  /\ Trim(text) # <<>> => nAnalyses < MaxClicks
  /\ AnalyzeSentiment

\* the classifier resolves: the result is shown; then `finally`
AnalyzeSentimentResolve(a, r) ==
  /\ a \in analyses
  /\ analyses' = analyses \ {a}
  /\ resultDiv' = ResultCard(r)
  /\ disabled' = FALSE
  /\ textContent' = "Analyze Sentiment"
  /\ last' = Event("analyzeResolve", a.id, r, <<>>)
  /\ UNCHANGED <<classifier, loadPending, nAnalyses, text, hookVars, cpVars>>

\* a catch without the `finally`: the button is left as it was
AnalyzeSentimentRejectNoFinally(a, err) ==
  /\ a \in analyses
  /\ analyses' = analyses \ {a}
  /\ resultDiv' = ErrorBox("Error: ", err.message)
  /\ last' = Event("analyzeReject", a.id, err.message, <<err>>)
  /\ UNCHANGED <<classifier, disabled, textContent, loadPending, nAnalyses,
                 text, hookVars, cpVars>>

\* the classifier rejects: the error is shown; then `finally`
AnalyzeSentimentReject(a, err) ==
  /\ a \in analyses
  /\ analyses' = analyses \ {a}
  /\ resultDiv' = ErrorBox("Error: ", err.message)
  /\ disabled' = FALSE
  /\ textContent' = "Analyze Sentiment"
  /\ last' = Event("analyzeReject", a.id, err.message, <<err>>)
  /\ UNCHANGED <<classifier, loadPending, nAnalyses, text, hookVars, cpVars>>

QuickNext ==
  \/ \E t \in Texts : Type(t)
  \/ QuickLoadResolve
  \/ \E err \in PageRejections : QuickLoadReject(err)
  \/ QuickClick
  \/ \E a \in analyses, r \in Results : AnalyzeSentimentResolve(a, r)
  \/ \E a \in analyses, err \in PageRejections : AnalyzeSentimentReject(a, err)

QuickSpec == QuickInit /\ [][QuickNext]_vars

\* C23: in the quick-start page the button is disabled as long as an
\* analysis is outstanding, at most one analysis is outstanding, the button
\* is enabled again when the classifier resolves and when it rejects, and a
\* click on an empty or blank text only raises the alert: it neither
\* disables the button nor calls the classifier.
C23_QuickButtonGuardsAnalysis ==
  /\ [](analyses # {} => (disabled /\ textContent = "Analyzing..."))
  /\ [](Cardinality(analyses) <= 1)
  /\ [][/\ (\E a \in analyses : a \notin analyses')
             => (~disabled' /\ textContent' = "Analyze Sentiment")
        /\ (last'.op = "alert")
             => (Trim(text) = <<>> /\ UNCHANGED <<disabled, textContent,
                                                  analyses, nAnalyses,
                                                  resultDiv>>)
        /\ (nAnalyses' # nAnalyses)
             => /\ Trim(text) # <<>>
                /\ ~disabled /\ disabled'
                /\ analyses = {}
                /\ \E a \in analyses' : a.input = Trim(text)]_vars

\* the classifier rejected the second analysis: the error is shown and the
\* button is enabled again
C23_Witness ==
  /\ last.op = "analyzeReject"
  /\ last.n = 2
  /\ ~disabled
  /\ analyses = {}
  /\ resultDiv.class = "error"

\* the user clicked with a blank text: only the alert was raised
C23_WitnessBlank ==
  /\ last.op = "alert"
  /\ text = <<Blank, Blank>>
  /\ ~disabled
  /\ nAnalyses = 0

\* ------------------------------ README.md: createPipeline (graceful fallback)
\* A message is a sequence of words; 'webgpu' is matched as written.
\* What pipeline() can reject with: Errors whose message does or does not
\* contain 'webgpu', a plain object carrying a message, and a value with no
\* message property (a number, a string).
CpRejections ==
  {[isError |-> TRUE, hasMessage |-> TRUE,
    message |-> <<"no", "webgpu", "adapter">>],
   [isError |-> TRUE, hasMessage |-> TRUE,
    message |-> <<"WebGPU", "not", "available">>],
   [isError |-> TRUE, hasMessage |-> TRUE,
    message |-> <<"out", "of", "memory">>],
   [isError |-> TRUE, hasMessage |-> TRUE,
    message |-> <<"Failed", "to", "fetch">>],
   [isError |-> FALSE, hasMessage |-> TRUE, message |-> <<"webgpu", "lost">>],
   [isError |-> FALSE, hasMessage |-> FALSE, message |-> <<>>]}

\* what reading a property of undefined throws
TypeErrorValue ==
  [isError |-> TRUE, hasMessage |-> TRUE,
   message |-> <<"Cannot", "read", "properties", "of", "undefined">>]

\* message.includes(word)
Includes(message, word) == \E i \in 1..Len(message) : message[i] = word

\* supportsWebGPU ? { device: 'webgpu' } : { device: 'wasm' }
CpOptions == IF supportsWebGPU THEN "webgpu" ELSE "wasm"

\* pipeline(task, model, { device })
CpCall(device) ==
  [task |-> cpArgs.task, model |-> cpArgs.model, device |-> device]

\* createPipeline(task, model) has run up to its first await
CpInit ==
  /\ supportsWebGPU \in BOOLEAN
  /\ cpArgs \in [task : Tasks, model : Models]
  /\ cpCalls = <<CpCall(CpOptions)>>
  /\ cpOutcome = NoOutcome
  /\ last = Event("createPipeline", 0, Null, <<>>)
  /\ text = <<>>
  /\ NoHook
  /\ NoPage

\* the pipeline() call awaited resolves: createPipeline returns its pipe
CpResolve ==
  /\ cpOutcome = NoOutcome
  /\ cpOutcome' = [kind |-> "returned", value |-> Len(cpCalls)]
  /\ last' = Event("resolve", Len(cpCalls), Null, <<>>)
  /\ UNCHANGED <<supportsWebGPU, cpArgs, cpCalls, text, hookVars, pageVars>>

\* a catch that falls back to 'wasm' whatever the failure was
CpRejectAlwaysFallsBack(err) ==
  /\ cpOutcome = NoOutcome
  /\ last' = Event("reject", Len(cpCalls), Null, <<err>>)
  /\ IF Len(cpCalls) = 1
       THEN /\ cpCalls' = Append(cpCalls, CpCall("wasm"))
            /\ UNCHANGED cpOutcome
       ELSE /\ cpOutcome' = [kind |-> "threw", error |-> err]
            /\ UNCHANGED cpCalls
  /\ UNCHANGED <<supportsWebGPU, cpArgs, text, hookVars, pageVars>>

\* The pipeline() call awaited rejects with err.  The first call is inside
\* the try: the catch reads err.message.includes('webgpu'), which itself
\* throws when err has no message.  The second call is inside the catch:
\* its rejection leaves createPipeline as it is.
CpReject(err) ==
  /\ cpOutcome = NoOutcome
  /\ last' = Event("reject", Len(cpCalls), Null, <<err>>)
  /\ IF Len(cpCalls) = 1
       THEN IF ~err.hasMessage
              THEN /\ cpOutcome' = [kind |-> "threw", error |-> TypeErrorValue]
                   /\ UNCHANGED cpCalls
            ELSE IF Includes(err.message, "webgpu")
              THEN /\ cpCalls' = Append(cpCalls, CpCall("wasm"))
                   /\ UNCHANGED cpOutcome
            ELSE /\ cpOutcome' = [kind |-> "threw", error |-> err]
                 /\ UNCHANGED cpCalls
       ELSE /\ cpOutcome' = [kind |-> "threw", error |-> err]
            /\ UNCHANGED cpCalls
  /\ UNCHANGED <<supportsWebGPU, cpArgs, text, hookVars, pageVars>>

CpNext ==
  \/ CpResolve
  \/ \E err \in CpRejections : CpReject(err)

CpSpec == CpInit /\ [][CpNext]_vars

\* a pipeline() call was rejected in this step
CpRejectStep == last'.op = "reject" /\ last' # last


\* C24: createPipeline calls pipeline() once with the device chosen from
\* 'gpu' in navigator and at most once more, with device 'wasm' and the same
\* task and model, which it does exactly when the first call was rejected
\* with a message containing 'webgpu'.  Every other rejection of the first
\* call and every rejection of the second make createPipeline itself
\* reject: with the rejected value, except that a first rejection carrying
\* no message surfaces as the TypeError of reading it.
C24_FallbackAtMostTwice ==
  /\ [](/\ Len(cpCalls) \in 1..2
        /\ cpCalls[1] = CpCall(IF supportsWebGPU THEN "webgpu" ELSE "wasm")
        /\ Len(cpCalls) = 2 => cpCalls[2] = CpCall("wasm"))
  /\ [][CpRejectStep
          => LET err == last'.args[1] IN
             IF Len(cpCalls) = 1 /\ err.hasMessage
                 /\ Includes(err.message, "webgpu")
               THEN /\ cpCalls' = Append(cpCalls, CpCall("wasm"))
                    /\ cpOutcome' = NoOutcome
               ELSE /\ cpCalls' = cpCalls
                    /\ cpOutcome = NoOutcome
                    /\ cpOutcome'.kind = "threw"
                    /\ cpOutcome'.error =
                         (IF Len(cpCalls) = 1 /\ ~err.hasMessage
                            THEN TypeErrorValue ELSE err)]_vars
  /\ [][cpCalls' # cpCalls => CpRejectStep]_vars
  /\ [](cpOutcome.kind = "returned" => cpOutcome.value = Len(cpCalls))

\* WebGPU was chosen, the first call failed on webgpu, the fallback call
\* with 'wasm' failed too and its error reached the caller
C24_Witness ==
  /\ supportsWebGPU
  /\ Len(cpCalls) = 2
  /\ cpCalls[1].device = "webgpu"
  /\ cpCalls[2].device = "wasm"
  /\ last.op = "reject"
  /\ cpOutcome.kind = "threw"
  /\ cpOutcome.error = last.args[1]


\* ------------------------------------- starter-template/vanilla-js/main.js
\* The page once the module has run: the click listener is attached and
\* init() has run up to its await.  The textarea holds any text.
VanillaInit ==
  /\ classifier = Null
  /\ textContent = "Loading model..."
  /\ disabled = TRUE
  /\ resultDiv = EmptyResult
  /\ loadPending = TRUE
  /\ analyses = {}
  /\ nAnalyses = 0
  /\ text \in Texts
  /\ last = Event("init", 0, Null, <<>>)
  /\ NoHook
  /\ NoCreatePipeline

\* init: classifier = await pipeline('sentiment-analysis') resolves
VanillaLoadResolve ==
  /\ loadPending
  /\ loadPending' = FALSE
  /\ classifier' = PagePipe
  /\ textContent' = "Analyze Sentiment"
  /\ disabled' = FALSE
  /\ last' = Event("loadResolve", 0, Null, <<>>)
  /\ UNCHANGED <<resultDiv, analyses, nAnalyses, text, hookVars, cpVars>>

\* a catch that gives the button back
VanillaLoadRejectEnables(err) ==
  /\ loadPending
  /\ loadPending' = FALSE
  /\ textContent' = "Failed to load model"
  /\ disabled' = FALSE
  /\ last' = Event("loadReject", 0, Null, <<err>>)
  /\ UNCHANGED <<classifier, resultDiv, analyses, nAnalyses, text,
                 hookVars, cpVars>>

\* init: it rejects; the catch changes the caption only
VanillaLoadReject(err) ==
  /\ loadPending
  /\ loadPending' = FALSE
  /\ textContent' = "Failed to load model"
  /\ last' = Event("loadReject", 0, Null, <<err>>)
  /\ UNCHANGED <<classifier, disabled, resultDiv, analyses, nAnalyses, text,
                 hookVars, cpVars>>

\* analyze up to its await, or to its early return; calling a null
\* classifier throws inside the try and is caught at once
Analyze ==
  LET t == Trim(text) IN
  IF t = <<>>
    THEN /\ resultDiv' = ErrorBox("", "Please enter some text!")
         /\ last' = Event("empty", 0, Null, <<>>)
         /\ UNCHANGED <<classifier, disabled, textContent, loadPending,
                        analyses, nAnalyses, text, hookVars, cpVars>>
    ELSE IF classifier = Null
      THEN /\ resultDiv' = ErrorBox("Error: ", "classifier is not a function")
           /\ last' = Event("nullCall", 0, t, <<>>)
           /\ UNCHANGED <<classifier, disabled, textContent, loadPending,
                          analyses, nAnalyses, text, hookVars, cpVars>>
      ELSE /\ nAnalyses' = nAnalyses + 1
           /\ analyses' = analyses \cup {[id |-> nAnalyses + 1, input |-> t]}
           /\ last' = Event("analyze", nAnalyses + 1, t, <<>>)
           /\ UNCHANGED <<classifier, disabled, textContent, resultDiv,
                          loadPending, text, hookVars, cpVars>>

\* addEventListener('click', analyze); a disabled button dispatches no click
VanillaClick ==
  /\ ~disabled
  /\ Trim(text) # <<>> => nAnalyses < MaxClicks
  /\ Analyze

\* a success path that shows only the result of the click made last
AnalyzeResolveLatestIssued(a, r) ==
  /\ a \in analyses
  /\ analyses' = analyses \ {a}
  /\ resultDiv' = IF a.id = nAnalyses THEN ResultCard(r) ELSE resultDiv
  /\ last' = Event("analyzeResolve", a.id, r, <<>>)
  /\ UNCHANGED <<classifier, disabled, textContent, loadPending, nAnalyses,
                 text, hookVars, cpVars>>

\* analyze: the classifier resolves and the result card is written
AnalyzeResolve(a, r) ==
  /\ a \in analyses
  /\ analyses' = analyses \ {a}
  /\ resultDiv' = ResultCard(r)
  /\ last' = Event("analyzeResolve", a.id, r, <<>>)
  /\ UNCHANGED <<classifier, disabled, textContent, loadPending, nAnalyses,
                 text, hookVars, cpVars>>

\* analyze: the classifier rejects and the catch writes error.message
AnalyzeReject(a, err) ==
  /\ a \in analyses
  /\ analyses' = analyses \ {a}
  /\ resultDiv' = ErrorBox("Error: ", err.message)
  /\ last' = Event("analyzeReject", a.id, err.message, <<err>>)
  /\ UNCHANGED <<classifier, disabled, textContent, loadPending, nAnalyses,
                 text, hookVars, cpVars>>

VanillaNext ==
  \/ \E t \in Texts : Type(t)
  \/ VanillaLoadResolve
  \/ \E err \in PageRejections : VanillaLoadReject(err)
  \/ VanillaClick
  \/ \E a \in analyses, r \in Results : AnalyzeResolve(a, r)
  \/ \E a \in analyses, err \in PageRejections : AnalyzeReject(a, err)

VanillaSpec == VanillaInit /\ [][VanillaNext]_vars

\* C29: in the vanilla starter the button is enabled only while the
\* classifier is set, so no click calls a null classifier; the load is
\* issued once, and after it failed the button is disabled for good and
\* the classifier stays null.
C29_EnabledOnlyWhenLoaded ==
  /\ [](~disabled => (classifier # Null /\ ~loadPending))
  /\ [](last.op # "nullCall")
  /\ []((~loadPending /\ classifier = Null)
          => (disabled /\ textContent = "Failed to load model"))
  /\ [][/\ ~loadPending => ~loadPending'
        /\ (~loadPending /\ classifier = Null)
             => (classifier' = Null /\ disabled')
        /\ classifier # Null => classifier' = classifier]_vars

\* the load failed and the user went on typing: the button stays disabled
C29_Witness ==
  /\ ~loadPending
  /\ classifier = Null
  /\ disabled
  /\ textContent = "Failed to load model"
  /\ last.op = "input"
  /\ Trim(text) # <<>>

\* C30: in the vanilla starter a click on an empty or blank text writes the
\* request to enter text and calls no classifier; a click on any other text
\* calls the classifier exactly once, with the trimmed text; a rejection is
\* written to the result area as an error, a resolution as a result card,
\* whichever call it belongs to; the button is left enabled throughout, so
\* calls can be outstanding together.
C30_AnalyzeOverlaps ==
  [][/\ (last'.op = "empty")
          => /\ Trim(text) = <<>>
             /\ resultDiv' = ErrorBox("", "Please enter some text!")
             /\ UNCHANGED <<analyses, nAnalyses, disabled>>
     /\ (last'.op = "analyze" /\ last' # last)
          => /\ Trim(text) # <<>>
             /\ ~disabled
             /\ nAnalyses' = nAnalyses + 1
             /\ analyses' = analyses \cup {[id |-> nAnalyses', input |-> Trim(text)]}
             /\ Cardinality(analyses') = Cardinality(analyses) + 1
             /\ UNCHANGED <<resultDiv, disabled>>
     /\ (nAnalyses' # nAnalyses) => (last'.op = "analyze" /\ last' # last)
     /\ \A a \in analyses :
          a \notin analyses'
            => /\ analyses' = analyses \ {a}
               /\ UNCHANGED <<disabled, nAnalyses>>
               /\ last'.op = "analyzeResolve"
                    => resultDiv' = ResultCard(last'.val)
               /\ last'.op = "analyzeReject"
                    => (resultDiv' = ErrorBox("Error: ", last'.args[1].message)
                        /\ resultDiv'.class = "error")
               /\ last'.op \in {"analyzeResolve", "analyzeReject"}]_vars

\* two clicks overlapped; the analysis started first settled last and its
\* result is the one shown
C30_Witness ==
  /\ last.op = "analyzeResolve"
  /\ last.n = 1
  /\ nAnalyses = 2
  /\ analyses = {}
  /\ resultDiv = ResultCard(last.val)
  /\ ~disabled

====
